---- MODULE Spec2Model ----
(***************************************************************************)
(* A model of scripts/license_suggester.py, the license suggester of the   *)
(* Finite Intent Executor: one run of main(), from the command line to the *)
(* exit status, with the file system, standard input and the Ollama        *)
(* service as the environment.                                             *)
(*                                                                         *)
(* Text is modelled by TLA+ strings: Len, \o and SubSeq act on them as on  *)
(* sequences of characters, so the fixed texts of the script are its own   *)
(* and the 8000-character truncation is checked at its real size.          *)
(***************************************************************************)
EXTENDS Integers, Sequences, FiniteSets, TLC

(***************************************************************************)
(* The fixed texts of the script.                                          *)
(***************************************************************************)
COMMON_LICENSES ==
    "\n"
    \o "Common open-source licenses for code:\n"
    \o "- MIT License (permissive, very popular)\n"
    \o "- Apache License 2.0 (permissive, with patent grant)\n"
    \o "- BSD 3-Clause (permissive)\n"
    \o "- GNU GPLv3 (strong copyleft)\n"
    \o "- GNU LGPLv3 (weak copyleft)\n"
    \o "- Mozilla Public License 2.0\n"
    \o "\n"
    \o "For text/content/documentation:\n"
    \o "- Creative Commons Attribution 4.0 (CC BY-4.0)\n"
    \o "- Creative Commons Attribution-ShareAlike 4.0 (CC BY-SA-4.0)\n"
    \o "- Creative Commons CC0 1.0 (public domain dedication)\n"
    \o "\n"
    \o "For blockchain/NFT IP assets:\n"
    \o "- NFT License 2.0 (designed for tokenized IP)\n"
    \o "- Royalty-based licenses (custom terms)\n"
    \o "- Sunset licenses (auto-public-domain after period)\n"
    \o "\n"
    \o "Proprietary / All rights reserved (no open-source license).\n"

BLOCKCHAIN_CONTEXT ==
    "\n"
    \o "Note: This tool is designed for the Finite Intent Executor system, which:\n"
    \o "- Manages posthumous intent execution\n"
    \o "- Supports IP tokenization via ERC721 (IPToken contract)\n"
    \o "- Automatically transitions IP to public domain (CC0) after 20 years\n"
    \o "- Allows licensing and royalty collection during execution phase\n"
    \o "\n"
    \o "Consider licenses that are compatible with:\n"
    \o "1. Blockchain-based IP management\n"
    \o "2. Potential future public domain transition\n"
    \o "3. Royalty collection mechanisms\n"
    \o "4. Smart contract enforcement\n"

\* PROMPT_TEMPLATE as str.format reads it: the literal text before each
\* replacement field, then the field's name ("" after the last literal).
PROMPT_TEMPLATE ==
    << [ literal |->
           "\n"
           \o "You are an expert in open-source licensing and blockchain IP management.\n"
           \o "\n",
         field |-> "context" ],
       [ literal |->
           "\n"
           \o "\n"
           \o "Analyze the following content and suggest 3-5 most appropriate licenses, ranked from best fit to alternatives.\n"
           \o "Explain briefly why each one fits, considering:\n"
           \o "- If it's source code, what language/style, and desired openness (permissive vs copyleft).\n"
           \o "- If it's text/documentation/article, suggest Creative Commons or similar.\n"
           \o "- If it's IP for blockchain/NFT distribution, consider royalty-compatible licenses.\n"
           \o "- Compatibility with eventual public domain transition (in 20 years).\n"
           \o "- If it seems proprietary or closed, suggest \"Proprietary (All rights reserved)\".\n"
           \o "\n"
           \o "Only suggest from these common licenses: ",
         field |-> "licenses" ],
       [ literal |->
           "\n"
           \o "\n"
           \o "If none fit well, say so and explain what type of license would be needed.\n"
           \o "\n"
           \o "Content preview (first 8000 chars):\n",
         field |-> "content" ],
       [ literal |->
           "\n",
         field |-> "" ] >>

(***************************************************************************)
(* Bounds of the model.                                                    *)
(***************************************************************************)
\* The longest text appended to a padding to make an input text.
MaxTail == 2
\* The most entries the model registry returns.
MaxModels == 2

\* content[:8000]
TruncLimit == 8000
\* "=" * 70, "-" * 70
RuleWidth == 70

(***************************************************************************)
(* Python's string operations.                                             *)
(***************************************************************************)
Min(a, b) == IF a <= b THEN a ELSE b

\* s * n
RECURSIVE Rep(_, _)
Rep(s, n) ==
    IF n <= 0 THEN ""
    ELSE IF n % 2 = 0 THEN LET h == Rep(s, n \div 2) IN h \o h
    ELSE s \o Rep(s, n - 1)

CharAt(s, i) == SubSeq(s, i, i)

\* The characters str.strip() removes, among those the model's texts hold.
Whitespace == {" ", "\t", "\n", "\r", "\f"}

IsSpace(c) == c \in Whitespace

\* s.strip(): s from its first to its last character that is not whitespace.
Strip(s) ==
    LET n == Len(s)
        solid(i) == ~IsSpace(CharAt(s, i))
    IN  IF \A i \in 1..n : ~solid(i) THEN ""
        ELSE LET first == CHOOSE i \in 1..n :
                              solid(i) /\ \A j \in 1..(i - 1) : ~solid(j)
                 last == CHOOSE i \in 1..n :
                              solid(n + 1 - i) /\ \A j \in 1..(i - 1) : ~solid(n + 1 - j)
             IN  SubSeq(s, first, n + 1 - last)

\* s[:n + 1]: one character too many.
SliceMutant(s, n) == SubSeq(s, 1, Min(Len(s), n + 1))

\* s[:n]
Slice(s, n) == SubSeq(s, 1, Min(Len(s), n))

\* template.format(**kwargs): each literal followed by its field's value.
RECURSIVE Format(_, _)
Format(template, kwargs) ==
    IF template = <<>> THEN ""
    ELSE LET part == Head(template)
         IN  part.literal
             \o (IF part.field = "" THEN "" ELSE kwargs[part.field])
             \o Format(Tail(template), kwargs)

\* d.get(key, default)
Get(d, key, default) == IF key \in DOMAIN d THEN d[key] ELSE default

(***************************************************************************)
(* The environment: command lines, input texts, the service's replies.     *)
(***************************************************************************)
\* The command lines parse_args accepts (on any other, argparse ends the run
\* itself). An option's value: <<>> when the command line does not give it.
FileArgs == {<<>>, <<"">>, <<"intent.md">>}
ModelArgs == {<<>>, <<"mistral">>}

CommandLines ==
    [file : FileArgs, model : ModelArgs,
     no_context : BOOLEAN, list_models : BOOLEAN]

Alphabet == {"a", " ", "\n"}

RECURSIVE Tails(_)
Tails(n) ==
    IF n = 0 THEN {""}
    ELSE LET shorter == Tails(n - 1)
         IN  shorter \cup {t \o c : t \in shorter, c \in Alphabet}

\* Input texts: short ones, ones that begin with a tab and a newline, ones
\* at and over the truncation limit, and ones that hold the text of the
\* contextual note themselves.
Paddings ==
    {"", "\t\n", Rep("x", TruncLimit - 1), Strip(BLOCKCHAIN_CONTEXT)}

InputTexts == {p \o t : p \in Paddings, t \in Tails(MaxTail)}

\* What a call of the service does: it raises an error or returns a value.
Raise(msg) == [raised |-> TRUE, error |-> msg, value |-> <<>>]
Return(v) == [raised |-> FALSE, error |-> "", value |-> v]

ServiceErrors ==
    {"Failed to connect to Ollama", "model 'mistral' not found (status code: 404)"}

\* ollama.generate: an error, a result with its 'response', or a result
\* without that field.
GenerateReplies ==
    {Raise(e) : e \in ServiceErrors}
    \cup {Return([response |-> r, done |-> TRUE]) :
              r \in {"1. MIT License\n2. Apache License 2.0", ""}}
    \cup {Return([done |-> TRUE])}

ModelEntries ==
    {[name |-> "llama3.2:latest"], [name |-> "mistral:latest"],
     [model |-> "llama3.2:latest"]}

RECURSIVE Seqs(_, _)
Seqs(S, n) ==
    IF n = 0 THEN {<<>>}
    ELSE LET shorter == Seqs(S, n - 1)
         IN  shorter \cup {Append(q, x) : q \in shorter, x \in S}

\* ollama.list: an error, a result with its 'models', or a result without.
ListReplies ==
    {Raise(e) : e \in ServiceErrors}
    \cup {Return([models |-> q]) : q \in Seqs(ModelEntries, MaxModels)}
    \cup {Return(<<>>)}

(***************************************************************************)
(* The state of one run.                                                   *)
(***************************************************************************)
VARIABLES
    argv,          \* the command line
    source_state,  \* the named file: "readable", "missing" or "unreadable"
    input_text,    \* the text the named file, or standard input, holds
    pc,            \* where main() is
    args,          \* parse_args' result: <<>> before it, <<namespace>> after
    content,       \* main's content
    prompt,        \* suggest_licenses' prompt
    suggestion,    \* main's suggestion
    stdout,        \* what print wrote, one entry a call
    exit_status,   \* <<>> while the process runs, <<status>> once it ended
    calls,         \* the calls the Ollama service received, with its replies
    steps          \* the steps taken so far, in order

vars ==
    <<argv, source_state, input_text, pc, args, content, prompt, suggestion,
      stdout, exit_status, calls, steps>>
env == <<argv, source_state, input_text>>

\* file_path and file_path != '-'
NamesFile(file_path) == file_path # "" /\ file_path # "-"

\* The argument's value, or the default add_argument gives it.
ArgOr(given, default) == IF given = <<>> THEN default ELSE given[1]

\* Only a named file can be missing or unreadable, and only a text that can
\* be read is one.
Init ==
    /\ argv \in CommandLines
    /\ source_state \in
           IF NamesFile(ArgOr(argv.file, "-"))
           THEN {"readable", "missing", "unreadable"} ELSE {"readable"}
    /\ input_text \in IF source_state = "readable" THEN InputTexts ELSE {""}
    /\ pc = "parse_args"
    /\ args = <<>>
    /\ content = ""
    /\ prompt = ""
    /\ suggestion = ""
    /\ stdout = <<>>
    /\ exit_status = <<>>
    /\ calls = <<>>
    /\ steps = <<>>

\* sys.exit() with the status left out.
ExitMutant(status) ==
    /\ pc' = "exited"
    /\ exit_status' = <<0>>

\* sys.exit(status), or main() returning (status 0).
Exit(status) ==
    /\ pc' = "exited"
    /\ exit_status' = <<status>>

\* The input is read first, whatever was asked.
AfterParseMutant(namespace) == "read_content"

\* After parse_args: the "if args.list_models" of main comes first.
AfterParse(namespace) ==
    IF namespace.list_models THEN "list_models" ELSE "read_content"

ParseArgs ==
    /\ pc = "parse_args"
    /\ LET namespace ==
               [file |-> ArgOr(argv.file, "-"),
                model |-> ArgOr(argv.model, "llama3.2"),
                no_context |-> argv.no_context,
                list_models |-> argv.list_models]
       IN  /\ args' = <<namespace>>
           /\ pc' = AfterParse(namespace)
    /\ steps' = Append(steps, "parse_args")
    /\ UNCHANGED <<env, content, prompt, suggestion, stdout, exit_status, calls>>

\* The loop left after its first entry.
ModelLinesMutant(entries) ==
    IF entries = <<>> \/ "name" \notin DOMAIN Head(entries) THEN <<>>
    ELSE <<"  - " \o Head(entries).name>>

\* The lines the loop over models.get('models', []) prints: it stops at the
\* first entry without a 'name' (a KeyError).
RECURSIVE ModelLines(_)
ModelLines(entries) ==
    IF entries = <<>> \/ "name" \notin DOMAIN Head(entries) THEN <<>>
    ELSE <<"  - " \o Head(entries).name>> \o ModelLines(Tail(entries))

\* The error the try block of --list-models ends with: <<>> when none,
\* <<str(e)>> otherwise.
ListError(reply) ==
    IF reply.raised THEN <<reply.error>>
    ELSE IF \E i \in 1..Len(Get(reply.value, "models", <<>>)) :
                "name" \notin DOMAIN Get(reply.value, "models", <<>>)[i]
         THEN <<"'name'">>
         ELSE <<>>

\* sys.exit(0) stands inside the try, but SystemExit is no Exception: the
\* handler does not catch it.
ListExitStatus(error) == IF error = <<>> THEN 0 ELSE 1

ListModels ==
    /\ pc = "list_models"
    /\ \E reply \in ListReplies :
         LET error == ListError(reply)
             listed ==
                 IF reply.raised THEN <<>>
                 ELSE <<"Available Ollama models:">>
                      \o ModelLines(Get(reply.value, "models", <<>>))
             failure ==
                 IF error = <<>> THEN <<>>
                 ELSE <<"Error listing models: " \o error[1],
                        "Make sure Ollama is running.">>
         IN  /\ calls' = Append(calls, [op |-> "list", model |-> "",
                                         prompt |-> "", reply |-> reply])
             /\ stdout' = stdout \o listed \o failure
             /\ Exit(ListExitStatus(error))
    /\ steps' = steps \o <<"list_models", "exit">>
    /\ UNCHANGED <<env, args, content, prompt, suggestion>>

\* The handler of any Exception tried before that of FileNotFoundError.
ReadFailureMutant(file_path, state) ==
    IF ~NamesFile(file_path) \/ state = "readable" THEN <<>>
    ELSE IF state = "missing"
         THEN <<"Error reading file: [Errno 2] No such file or directory: '"
                \o file_path \o "'">>
         ELSE <<"Error reading file: [Errno 13] Permission denied: '"
                \o file_path \o "'">>

\* What read_content prints before sys.exit(1): <<>> when it returns. An
\* unreadable file stands for any error of open or read but the missing
\* file; standard input is read outside any try, and is readable here.
ReadFailure(file_path, state) ==
    IF ~NamesFile(file_path) \/ state = "readable" THEN <<>>
    ELSE IF state = "missing"
         THEN <<"Error: File '" \o file_path \o "' not found.">>
         ELSE <<"Error reading file: [Errno 13] Permission denied: '"
                \o file_path \o "'">>

ReadContent ==
    /\ pc = "read_content"
    /\ LET failure == ReadFailure(args[1].file, source_state)
       IN  IF failure = <<>>
           THEN /\ content' = input_text
                /\ pc' = "check_content"
                /\ steps' = Append(steps, "read_content")
                /\ UNCHANGED <<stdout, exit_status>>
           ELSE /\ stdout' = stdout \o failure
                /\ Exit(1)
                /\ steps' = steps \o <<"read_content", "exit">>
                /\ UNCHANGED content
    /\ UNCHANGED <<env, args, prompt, suggestion, calls>>

\* not content: the whitespace is not stripped.
IsEmptyMutant(text) == text = ""

\* not content.strip()
IsEmpty(text) == Strip(text) = ""

CheckContent ==
    /\ pc = "check_content"
    /\ IF IsEmpty(content)
       THEN /\ stdout' = Append(stdout, "No content provided.")
            /\ Exit(1)
            /\ steps' = steps \o <<"check_content", "exit">>
       ELSE /\ stdout' = stdout \o
                  <<Rep("=", RuleWidth),
                    "LICENSE SUGGESTION TOOL (OPTIONAL - FOR GUIDANCE ONLY)",
                    Rep("=", RuleWidth),
                    "\nAnalyzing content using model: " \o args[1].model,
                    "This may take a few moments...\n">>
            /\ pc' = "build_prompt"
            /\ steps' = Append(steps, "check_content")
            /\ UNCHANGED exit_status
    /\ UNCHANGED <<env, args, content, prompt, suggestion, calls>>

\* BLOCKCHAIN_CONTEXT if include_context else ""
Context(include_context) == IF include_context THEN BLOCKCHAIN_CONTEXT ELSE ""

\* include_context=args.no_context: the flag passed as it is.
IncludeContextMutant(namespace) == namespace.no_context

\* main passes include_context=not args.no_context
IncludeContext(namespace) == ~namespace.no_context

BuildPrompt ==
    /\ pc = "build_prompt"
    /\ prompt' = Format(PROMPT_TEMPLATE,
                        [context |-> Strip(Context(IncludeContext(args[1]))),
                         licenses |-> Strip(COMMON_LICENSES),
                         content |-> Slice(content, TruncLimit)])
    /\ pc' = "generate"
    /\ steps' = Append(steps, "build_prompt")
    /\ UNCHANGED <<env, args, content, suggestion, stdout, exit_status, calls>>

\* The error the try block of suggest_licenses catches: <<>> when none,
\* <<str(e)>> otherwise (a result without 'response' is a KeyError).
GenerateError(reply) ==
    IF reply.raised THEN <<reply.error>>
    ELSE IF "response" \notin DOMAIN reply.value THEN <<"'response'">>
    ELSE <<>>

\* Line 121: the result's 'response' goes back to main.
GenerateReturns(reply) ==
    /\ suggestion' = reply.value.response
    /\ pc' = "print_suggestion"
    /\ steps' = Append(steps, "generate")
    /\ UNCHANGED <<stdout, exit_status>>

\* The except block without its sys.exit(1): suggest_licenses returns None.
GenerateFailsNoExit(model, error) ==
    /\ stdout' = stdout \o
           <<"\nError: Failed to connect to Ollama. Please ensure:",
             "1. Ollama is installed (https://ollama.com)",
             "2. Ollama is running",
             "3. The model '" \o model \o "' is available (run: ollama pull "
                 \o model \o ")",
             "\nDetailed error: " \o error>>
    /\ suggestion' = "None"
    /\ pc' = "print_suggestion"
    /\ steps' = Append(steps, "generate")
    /\ UNCHANGED exit_status

\* The except block going back to the call instead of leaving.
GenerateFailsRetry(model, error) ==
    /\ stdout' = stdout \o
           <<"\nError: Failed to connect to Ollama. Please ensure:",
             "1. Ollama is installed (https://ollama.com)",
             "2. Ollama is running",
             "3. The model '" \o model \o "' is available (run: ollama pull "
                 \o model \o ")",
             "\nDetailed error: " \o error>>
    /\ pc' = "generate"
    /\ steps' = Append(steps, "generate")
    /\ UNCHANGED <<suggestion, exit_status>>

\* The except block: the setup steps, the error, sys.exit(1).
GenerateFails(model, error) ==
    /\ stdout' = stdout \o
           <<"\nError: Failed to connect to Ollama. Please ensure:",
             "1. Ollama is installed (https://ollama.com)",
             "2. Ollama is running",
             "3. The model '" \o model \o "' is available (run: ollama pull "
                 \o model \o ")",
             "\nDetailed error: " \o error>>
    /\ Exit(1)
    /\ steps' = steps \o <<"generate", "exit">>
    /\ UNCHANGED suggestion

Generate ==
    /\ pc = "generate"
    /\ \E reply \in GenerateReplies :
         LET error == GenerateError(reply)
             model == args[1].model
         IN  /\ calls' = Append(calls, [op |-> "generate", model |-> model,
                                         prompt |-> prompt, reply |-> reply])
             /\ IF error = <<>>
                THEN GenerateReturns(reply)
                ELSE GenerateFails(model, error[1])
    /\ UNCHANGED <<env, args, content, prompt>>

\* The rule after the suggestion left out.
FramedMutant(text) ==
    <<Rep("-", RuleWidth),
      text,
      "\nReminder: This is a suggestion tool only. Always consult legal counsel",
      "for licensing decisions, especially for valuable intellectual property.",
      Rep("=", RuleWidth)>>

\* Lines 178-183: the suggestion between two rules, then the reminder.
Framed(text) ==
    <<Rep("-", RuleWidth),
      text,
      Rep("-", RuleWidth),
      "\nReminder: This is a suggestion tool only. Always consult legal counsel",
      "for licensing decisions, especially for valuable intellectual property.",
      Rep("=", RuleWidth)>>

PrintSuggestion ==
    /\ pc = "print_suggestion"
    /\ stdout' = stdout \o Framed(suggestion)
    /\ Exit(0)
    /\ steps' = steps \o <<"print_suggestion", "exit">>
    /\ UNCHANGED <<env, args, content, prompt, suggestion, calls>>

Next ==
    \/ ParseArgs
    \/ ListModels
    \/ ReadContent
    \/ CheckContent
    \/ BuildPrompt
    \/ Generate
    \/ PrintSuggestion

Spec == Init /\ [][Next]_vars


(***************************************************************************)
(* What the claims speak of.                                               *)
(***************************************************************************)
\* The file argument and the model as the command line selects them.
GivenFile == IF argv.file = <<>> THEN "-" ELSE argv.file[1]
SelectedModel == IF argv.model = <<>> THEN "llama3.2" ELSE argv.model[1]

\* The run has a file to read, or reads standard input.
FromStdin == GivenFile \in {"", "-"}
InputRead == FromStdin \/ source_state = "readable"

OnlyWhitespace(s) == \A i \in 1..Len(s) : CharAt(s, i) \in Whitespace

GenerateCalls == {i \in 1..Len(calls) : calls[i].op = "generate"}
ListCalls == {i \in 1..Len(calls) : calls[i].op = "list"}

\* t stands in p at position i.
StartsAt(p, i, t) ==
    /\ i + Len(t) - 1 <= Len(p)
    /\ CharAt(p, i) = CharAt(t, 1)
    /\ SubSeq(p, i, i + Len(t) - 1) = t

Contains(p, t) == \E i \in 1..(Len(p) - Len(t) + 1) : StartsAt(p, i, t)

IsPrefix(s, t) == Len(s) <= Len(t) /\ SubSeq(t, 1, Len(s)) = s

Printed(line) == \E i \in 1..Len(stdout) : stdout[i] = line

\* The last n entries of stdout.
LastPrinted(n) == SubSeq(stdout, Len(stdout) - n + 1, Len(stdout))

(***************************************************************************)
(* C1: empty input.                                                        *)
(***************************************************************************)
EmptyInputRun == InputRead /\ OnlyWhitespace(input_text)

EmptyInputOutcome ==
    /\ calls = <<>>
    /\ pc = "exited" =>
           /\ stdout = <<"No content provided.">>
           /\ exit_status = <<1>>

\* C1, as claimed: every run whose input file or standard input holds empty
\* or whitespace-only content prints "No content provided.", ends with
\* status 1 and never calls the service.
C1_Original == EmptyInputRun => EmptyInputOutcome

\* C1, amended: every run without --list-models whose input file or standard
\* input holds empty or whitespace-only content never calls the service,
\* never gets to build a prompt, and ends having printed
\* "No content provided." and nothing else, with status 1.
C1_EmptyInput ==
    (EmptyInputRun /\ ~argv.list_models) =>
        /\ EmptyInputOutcome
        /\ pc \notin {"build_prompt", "generate", "print_suggestion"}

\* A run over a tab, a newline and a blank has ended so.
C1_Witness ==
    /\ EmptyInputRun /\ ~argv.list_models
    /\ input_text = "\t\n "
    /\ pc = "exited"
    /\ stdout = <<"No content provided.">>
    /\ exit_status = <<1>>
    /\ calls = <<>>

(***************************************************************************)
(* C2: truncation.                                                         *)
(***************************************************************************)
\* The line of PROMPT_TEMPLATE that the content follows.
PreviewLine == "Content preview (first 8000 chars):\n"

\* What is to be submitted of a text: all of it, or its first 8000 characters.
Submitted(text) ==
    IF Len(text) > TruncLimit THEN SubSeq(text, 1, TruncLimit) ELSE text

\* The prompt p ends with the preview line, the text c and the newline the
\* template ends with: c is the content part of p.
HasContentPart(p, c) ==
    LET start == Len(p) - Len(c)
    IN  /\ start > Len(PreviewLine)
        /\ SubSeq(p, start - Len(PreviewLine), start - 1) = PreviewLine
        /\ SubSeq(p, start, Len(p) - 1) = c
        /\ CharAt(p, Len(p)) = "\n"

\* C2: the content part of every submitted prompt is the input's prefix of
\* length 8000 when the input is longer than 8000 characters, and the whole
\* input otherwise: nothing past position 8000 is submitted.
C2_Truncation ==
    \A i \in GenerateCalls :
        /\ HasContentPart(calls[i].prompt, Submitted(input_text))
        /\ Len(Submitted(input_text)) <= TruncLimit

\* A prompt was submitted for an input longer than the limit: its content
\* part is the 8000 characters before the input's last one.
C2_Witness ==
    \E i \in GenerateCalls :
        /\ Len(input_text) = TruncLimit + 1
        /\ input_text = Rep("x", TruncLimit - 1) \o " a"
        /\ HasContentPart(calls[i].prompt, Rep("x", TruncLimit - 1) \o " ")

(***************************************************************************)
(* C3: the contextual note.                                                *)
(***************************************************************************)
\* The note without the newline it begins and ends with.
NoteBody == SubSeq(BLOCKCHAIN_CONTEXT, 2, Len(BLOCKCHAIN_CONTEXT) - 1)

\* C3, as claimed: with --no-context the submitted prompt never contains
\* BLOCKCHAIN_CONTEXT, for every input; without it the prompt always does.
C3_Original ==
    \A i \in GenerateCalls :
        Contains(calls[i].prompt, BLOCKCHAIN_CONTEXT) = ~argv.no_context

\* C3, amended: with --no-context the submitted prompt contains
\* BLOCKCHAIN_CONTEXT only if the input itself holds the note's text;
\* without --no-context the prompt always contains it.
C3_ContextOnlyFromInput ==
    \A i \in GenerateCalls :
        /\ ~argv.no_context => Contains(calls[i].prompt, BLOCKCHAIN_CONTEXT)
        /\ (argv.no_context /\ ~Contains(input_text, NoteBody)) =>
               ~Contains(calls[i].prompt, BLOCKCHAIN_CONTEXT)

\* A prompt without the note was submitted under --no-context for an input
\* longer than the limit.
C3_Witness ==
    \E i \in GenerateCalls :
        /\ argv.no_context
        /\ ~Contains(input_text, NoteBody)
        /\ ~Contains(calls[i].prompt, BLOCKCHAIN_CONTEXT)
        /\ Len(calls[i].prompt) > TruncLimit

\* A prompt with the note was submitted under --no-context, the input being
\* the note's text.
C3_WitnessFromInput ==
    \E i \in GenerateCalls :
        /\ argv.no_context
        /\ input_text = NoteBody
        /\ Contains(calls[i].prompt, BLOCKCHAIN_CONTEXT)

(***************************************************************************)
(* C4, C5: the outcome of the generate call.                               *)
(***************************************************************************)
SeparatorLine ==
    "----------------------------------------------------------------------"
ClosingLines ==
    <<"\nReminder: This is a suggestion tool only. Always consult legal counsel",
      "for licensing decisions, especially for valuable intellectual property.",
      "======================================================================">>

\* The generate call gave a result that has its 'response'.
GenerateOk(i) ==
    ~calls[i].reply.raised /\ "response" \in DOMAIN calls[i].reply.value

\* The text of the error a failed generate call ends with.
ErrorText(i) ==
    IF calls[i].reply.raised THEN calls[i].reply.error ELSE "'response'"

\* C4: once the generate call has succeeded the run goes on to print, and it
\* ends with status 0, the last lines printed being a separator line, the
\* returned text as it is, a second separator line and the closing
\* disclaimer.
C4_SuccessPrinted ==
    \A i \in GenerateCalls :
        GenerateOk(i) =>
            /\ pc \in {"print_suggestion", "exited"}
            /\ pc = "exited" =>
                   /\ exit_status = <<0>>
                   /\ Len(stdout) >= 6
                   /\ LastPrinted(6) =
                          <<SeparatorLine, calls[i].reply.value.response,
                            SeparatorLine>> \o ClosingLines

\* A run has ended after printing a returned text of two lines.
C4_Witness ==
    \E i \in GenerateCalls :
        /\ GenerateOk(i)
        /\ calls[i].reply.value.response = "1. MIT License\n2. Apache License 2.0"
        /\ pc = "exited"
        /\ exit_status = <<0>>
        /\ Printed("1. MIT License\n2. Apache License 2.0")

\* C5: once the generate call has failed (an error raised, of whatever kind,
\* or a result without 'response') the run has ended with status 1, the last
\* lines printed being the setup steps, which name the selected model, and
\* the error; no separator line and no line of the disclaimer is printed.
C5_FailureDiagnosed ==
    \A i \in GenerateCalls :
        ~GenerateOk(i) =>
            /\ pc = "exited"
            /\ exit_status = <<1>>
            /\ Len(stdout) >= 5
            /\ LastPrinted(5) =
                   <<"\nError: Failed to connect to Ollama. Please ensure:",
                     "1. Ollama is installed (https://ollama.com)",
                     "2. Ollama is running",
                     "3. The model '" \o SelectedModel
                         \o "' is available (run: ollama pull "
                         \o SelectedModel \o ")",
                     "\nDetailed error: " \o ErrorText(i)>>
            /\ ~Printed(SeparatorLine)
            /\ ~Printed(ClosingLines[1])
            /\ ~Printed(ClosingLines[2])

\* A run with --model mistral has ended on a result without 'response'.
C5_Witness ==
    \E i \in GenerateCalls :
        /\ ~calls[i].reply.raised
        /\ ~GenerateOk(i)
        /\ SelectedModel = "mistral"
        /\ pc = "exited"
        /\ Printed("\nDetailed error: 'response'")

(***************************************************************************)
(* C6: a missing file.                                                     *)
(***************************************************************************)
MissingFileRun == ~FromStdin /\ source_state = "missing"

MissingFileOutcome ==
    /\ calls = <<>>
    /\ pc = "exited" =>
           /\ stdout = <<"Error: File '" \o GivenFile \o "' not found.">>
           /\ exit_status = <<1>>

\* C6, as claimed: every run whose file argument names a missing file prints
\* the not-found message with the path, ends with status 1 and does not call
\* the service.
C6_Original == MissingFileRun => MissingFileOutcome

\* C6, amended: every run without --list-models whose file argument names a
\* missing file prints the not-found message with the path and nothing
\* else, ends with status 1 and does not call the service.
C6_MissingFile ==
    (MissingFileRun /\ ~argv.list_models) =>
        /\ MissingFileOutcome
        /\ pc \in {"parse_args", "read_content", "exited"}

\* A run on the missing intent.md has ended so.
C6_Witness ==
    /\ MissingFileRun /\ ~argv.list_models
    /\ pc = "exited"
    /\ stdout = <<"Error: File 'intent.md' not found.">>
    /\ exit_status = <<1>>

(***************************************************************************)
(* C7: --list-models.                                                      *)
(***************************************************************************)
\* The entries of the registry's reply.
Entries(reply) ==
    IF "models" \in DOMAIN reply.value THEN reply.value.models ELSE <<>>

AllNamed(entries) == \A k \in 1..Len(entries) : "name" \in DOMAIN entries[k]

\* The list call gave entries that all bear a name.
ListOk(i) == ~calls[i].reply.raised /\ AllNamed(Entries(calls[i].reply))

\* C7: under --list-models the run never builds a prompt, never calls
\* generate and never prints a suggestion; it ends right after its one call
\* of the registry: with status 0 after the heading and the name of each
\* entry returned, with status 1 after the explanatory lines when the query
\* fails (or an entry bears no name).
C7_ListModels ==
    argv.list_models =>
        /\ GenerateCalls = {}
        /\ prompt = ""
        /\ pc \in {"parse_args", "list_models", "exited"}
        /\ ~Printed(SeparatorLine)
        /\ pc = "exited" =>
               /\ Len(calls) = 1 /\ calls[1].op = "list"
               /\ LET reply == calls[1].reply
                      entries == Entries(calls[1].reply)
                  IN  /\ reply.raised =>
                             /\ stdout = <<"Error listing models: " \o reply.error,
                                           "Make sure Ollama is running.">>
                             /\ exit_status = <<1>>
                      /\ ListOk(1) =>
                             /\ exit_status = <<0>>
                             /\ Len(stdout) = 1 + Len(entries)
                             /\ stdout[1] = "Available Ollama models:"
                             /\ \A k \in 1..Len(entries) :
                                    stdout[k + 1] = "  - " \o entries[k].name
                      /\ (~reply.raised /\ ~ListOk(1)) =>
                             /\ exit_status = <<1>>
                             /\ LastPrinted(2) =
                                    <<"Error listing models: 'name'",
                                      "Make sure Ollama is running.">>

\* A run has listed two models, whatever the input, and ended with status 0.
C7_Witness ==
    /\ argv.list_models
    /\ pc = "exited"
    /\ exit_status = <<0>>
    /\ stdout = <<"Available Ollama models:", "  - llama3.2:latest",
                  "  - mistral:latest">>

(***************************************************************************)
(* C8: exit statuses.                                                      *)
(***************************************************************************)
\* The run printed the suggestion or listed the models.
Succeeded ==
    \/ \E i \in GenerateCalls : GenerateOk(i)
    \/ \E i \in ListCalls : ListOk(i)

FileNotFound == ~argv.list_models /\ MissingFileRun
FileReadError == ~argv.list_models /\ ~FromStdin /\ source_state = "unreadable"
EmptyInput == ~argv.list_models /\ EmptyInputRun
GenerateCallError == \E i \in GenerateCalls : ~GenerateOk(i)
ListingError == \E i \in ListCalls : ~ListOk(i)

HandledFailure ==
    FileNotFound \/ FileReadError \/ EmptyInput \/ GenerateCallError \/ ListingError

\* C8: a run that has ended has status 0 if it succeeded (the suggestion was
\* printed or the models were listed) and status 1 if it met a handled
\* failure (file not found, file read error, empty input, generate-call
\* error, model-listing error); it is one or the other, never both.
C8_ExitStatus ==
    pc = "exited" =>
        /\ Succeeded => exit_status = <<0>>
        /\ HandledFailure => exit_status = <<1>>
        /\ Succeeded # HandledFailure

\* A run has ended with status 1 on a file it could not read.
C8_Witness == pc = "exited" /\ FileReadError /\ exit_status = <<1>>

(***************************************************************************)
(* C9: the order of the steps.                                             *)
(***************************************************************************)
\* The place of each step in the order main() takes them in.
CodeRank(step) ==
    CASE step = "parse_args" -> 1
      [] step = "list_models" -> 2
      [] step = "read_content" -> 3
      [] step = "check_content" -> 4
      [] step = "build_prompt" -> 5
      [] step = "generate" -> 6
      [] step = "print_suggestion" -> 7
      [] step = "exit" -> 8

\* The place of each step in the order the claim gives: the input is read
\* before the models are listed.
ClaimedRank(step) ==
    CASE step = "parse_args" -> 1
      [] step = "read_content" -> 2
      [] step = "check_content" -> 2
      [] step = "list_models" -> 3
      [] step = "build_prompt" -> 4
      [] step = "generate" -> 5
      [] step = "print_suggestion" -> 6
      [] step = "exit" -> 7

Took(step) == \E i \in 1..Len(steps) : steps[i] = step

\* C9, as claimed: the steps are taken in the order parse, read, list (when
\* asked), build, call, print, exit, and the input is read before the models
\* are listed.
C9_Original ==
    /\ \A i, j \in 1..Len(steps) :
           i < j => ClaimedRank(steps[i]) <= ClaimedRank(steps[j])
    /\ Took("list_models") => Took("read_content")

\* C9, amended: the steps are taken in the order parse, list and exit (when
\* listing is asked: then the input is never read), read, check, build,
\* call, print, exit; no step is taken before an earlier one of this order
\* or twice, the first is the parse and the last of an ended run the exit.
C9_CodeOrder ==
    /\ \A i, j \in 1..Len(steps) :
           i < j => CodeRank(steps[i]) < CodeRank(steps[j])
    /\ steps # <<>> => steps[1] = "parse_args"
    /\ (argv.list_models /\ Len(steps) >= 2) =>
           /\ steps = <<"parse_args", "list_models", "exit">>
           /\ content = ""
    /\ (~argv.list_models /\ Len(steps) >= 2) => steps[2] = "read_content"
    /\ (pc = "exited") = (steps # <<>> /\ steps[Len(steps)] = "exit")

\* A run has gone through every step of a suggestion.
C9_Witness ==
    steps = <<"parse_args", "read_content", "check_content", "build_prompt",
              "generate", "print_suggestion", "exit">>

(***************************************************************************)
(* C10: one call at most.                                                  *)
(***************************************************************************)
\* C10: the service is called at most once in a run, and a run whose call
\* has failed has ended, the failed call being its last step before the
\* exit.
C10_OneCall ==
    /\ Len(calls) <= 1
    /\ \A i \in GenerateCalls :
           ~GenerateOk(i) =>
               /\ pc = "exited"
               /\ SubSeq(steps, Len(steps) - 1, Len(steps)) = <<"generate", "exit">>
    /\ \A i \in ListCalls :
           ~ListOk(i) =>
               /\ pc = "exited"
               /\ SubSeq(steps, Len(steps) - 1, Len(steps)) = <<"list_models", "exit">>

\* A run has ended after its generate call raised an error.
C10_Witness ==
    /\ Len(calls) = 1
    /\ calls[1].op = "generate"
    /\ calls[1].reply.raised
    /\ pc = "exited"
====
